---- MODULE Spec2Model ----
(***************************************************************************)
(* Distributor shop-count reconciliation and legacy-shop deduplication of  *)
(* the shop controller: the Shop collection, the retailShops and           *)
(* wholesaleShops arrays embedded in each Distributor document, the cached *)
(* retailShopCount / wholesaleShopCount, and the handlers addShop,         *)
(* updateShop, deleteShop and getShopsByDistributor with the reconciler    *)
(* syncDistributorShopCounts.                                              *)
(*                                                                         *)
(* Strings are sequences of characters, so that toLowerCase and the        *)
(* template literal that builds the identity key are computed, not         *)
(* assumed.  The empty string stands for a field the request leaves out    *)
(* (both are falsy in `x || y`).                                           *)
(***************************************************************************)
EXTENDS Integers, Sequences, FiniteSets, TLC

\* ------------------------------------------------------------------ bounds
MaxShops == 2
MaxLegacy == 3
MaxSteps == 3
MaxStepsLong == 4

\* ------------------------------------------------------------------ values
Dists == {"D1", "D2"}
DistIds == Dists \cup {"D3"}
Types == {"Retailer", "Whole Seller"}
TypesIn == Types \cup {"Other"}
None == <<>>
Names == {<<"a">>, <<"A">>}
Owners == {<<"o">>, <<"p">>}
Addrs == {<<"x">>}
HistoricalEntry == [shopName |-> <<"A">>, ownerName |-> <<"o">>, address |-> <<"x">>, mirrorOf |-> 0]
Faults == {"none", "mirror", "push", "sync"}

\* shops, dist: the two stores.  last, steps: the response of the latest request
\* served one at a time.  inflight: the requests being served concurrently, each
\* with its position in its handler and the values its reads returned.  dirty:
\* history variable, per distributor, set by every write on the distributor's
\* data and cleared by a syncDistributorShopCounts run no such write overlapped.
VARIABLES shops, dist, last, steps, inflight, dirty

vars == <<shops, dist, last, steps, inflight, dirty>>

\* ------------------------------------------------------------- identity key
Lower(c) ==
  CASE c = "A" -> "a"
    [] c = "B" -> "b"
    [] c = "O" -> "o"
    [] c = "P" -> "p"
    [] c = "X" -> "x"
    [] OTHER -> c

ToLowerCaseOmitted(s) == s

ToLowerCase(s) == [i \in 1..Len(s) |-> Lower(s[i])]

ShopKey(n, o, a) == ToLowerCase(n \o <<"-">> \o o \o <<"-">> \o a)

LegacyKey(e) == ShopKey(e.shopName, e.ownerName, e.address)

UpdateField(t) == IF t = "Retailer" THEN "retailShops" ELSE "wholesaleShops"

Exists(ds, d) == d \in DOMAIN ds

\* --------------------------------------------------------------- reconciler
ActiveOf(sh, d, t) ==
  {i \in DOMAIN sh : sh[i].distributorId = d /\ sh[i].type = t /\ sh[i].isActive}

ShopKeys(sh, d, t) ==
  {ShopKey(sh[i].name, sh[i].ownerName, sh[i].address) : i \in ActiveOf(sh, d, t)}

RECURSIVE UniqueLegacyCountInverted(_, _)
UniqueLegacyCountInverted(arr, keys) ==
  IF arr = <<>> THEN 0
  ELSE (IF LegacyKey(Head(arr)) \in keys THEN 1 ELSE 0)
       + UniqueLegacyCountInverted(Tail(arr), keys)

RECURSIVE UniqueLegacyCount(_, _)
UniqueLegacyCount(arr, keys) ==
  IF arr = <<>> THEN 0
  ELSE (IF LegacyKey(Head(arr)) \notin keys THEN 1 ELSE 0)
       + UniqueLegacyCount(Tail(arr), keys)

TotalCountNoDedup(sh, ds, d, t) ==
  Cardinality(ActiveOf(sh, d, t)) + Len(ds[d][UpdateField(t)])

TotalCount(sh, ds, d, t) ==
  Cardinality(ActiveOf(sh, d, t))
  + UniqueLegacyCount(ds[d][UpdateField(t)], ShopKeys(sh, d, t))

SyncWritesSwapped(sh, ds, d) ==
  \/ TotalCount(sh, ds, d, "Retailer") # ds[d].wholesaleShopCount
  \/ TotalCount(sh, ds, d, "Whole Seller") # ds[d].retailShopCount

SyncWrites(sh, ds, d) ==
  \/ TotalCount(sh, ds, d, "Retailer") # ds[d].retailShopCount
  \/ TotalCount(sh, ds, d, "Whole Seller") # ds[d].wholesaleShopCount

SyncIncrementsCounts(sh, ds, d, f) ==
  IF ~Exists(ds, d) THEN ds
  ELSE IF f = "sync" THEN ds
  ELSE IF SyncWrites(sh, ds, d)
       THEN [ds EXCEPT ![d].retailShopCount = @ + 1,
                       ![d].wholesaleShopCount = TotalCount(sh, ds, d, "Whole Seller")]
       ELSE ds

SyncWritesRetailOnly(sh, ds, d, f) ==
  IF ~Exists(ds, d) THEN ds
  ELSE IF f = "sync" THEN ds
  ELSE IF SyncWrites(sh, ds, d)
       THEN [ds EXCEPT ![d].retailShopCount = TotalCount(sh, ds, d, "Retailer")]
       ELSE ds

SyncCreatesMissing(sh, ds, d, f) ==
  IF ~Exists(ds, d)
  THEN [x \in DOMAIN ds \cup {d} |->
          IF x = d THEN [retailShops |-> <<>>, wholesaleShops |-> <<>>,
                         retailShopCount |-> 0, wholesaleShopCount |-> 0]
          ELSE ds[x]]
  ELSE IF f = "sync" THEN ds
  ELSE IF SyncWrites(sh, ds, d)
       THEN [ds EXCEPT ![d].retailShopCount = TotalCount(sh, ds, d, "Retailer"),
                       ![d].wholesaleShopCount = TotalCount(sh, ds, d, "Whole Seller")]
       ELSE ds

SyncDistributorShopCounts(sh, ds, d, f) ==
  IF ~Exists(ds, d) THEN ds
  ELSE IF f = "sync" THEN ds
  ELSE IF SyncWrites(sh, ds, d)
       THEN [ds EXCEPT ![d].retailShopCount = TotalCount(sh, ds, d, "Retailer"),
                       ![d].wholesaleShopCount = TotalCount(sh, ds, d, "Whole Seller")]
       ELSE ds

Synced(ds, d, f) == IF Exists(ds, d) /\ f # "sync" THEN {d} ELSE {}

\* ------------------------------------------------------------ legacy mirror
Matches(e, n, o, a) == e.shopName = n /\ e.ownerName = o /\ e.address = a

HasEntry(arr, n, o, a) == \E i \in 1..Len(arr) : Matches(arr[i], n, o, a)

PullNothing(arr, n, o, a) == arr

Pull(arr, n, o, a) == SelectSeq(arr, LAMBDA e : ~Matches(e, n, o, a))

Entry(n, o, a, id) == [shopName |-> n, ownerName |-> o, address |-> a, mirrorOf |-> id]

RECURSIVE LegacyTotal(_, _)
LegacyTotal(ds, D) ==
  IF D = {} THEN 0
  ELSE LET d == CHOOSE x \in D : TRUE
       IN Len(ds[d].retailShops) + Len(ds[d].wholesaleShops) + LegacyTotal(ds, D \ {d})

WithinBounds(ds) == LegacyTotal(ds, DOMAIN ds) <= MaxLegacy

Respond(op, res, synced) ==
  /\ steps' = steps + 1
  /\ last' = [op |-> op, res |-> res, synced |-> synced]
  /\ UNCHANGED <<inflight, dirty>>

NoneInFlight ==
  /\ inflight = <<>>
  /\ dirty = [d \in Dists |-> FALSE]

\* --------------------------------------------------------------------- init
Init ==
  /\ shops = <<>>
  /\ \E r \in {<<>>, <<HistoricalEntry>>} :
       dist = [d \in Dists |->
                 [retailShops |-> IF d = "D1" THEN r ELSE <<>>, wholesaleShops |-> <<>>,
                  retailShopCount |-> 0, wholesaleShopCount |-> 0]]
  /\ last = [op |-> "init", res |-> "ok", synced |-> {}]
  /\ steps = 0
  /\ NoneInFlight

\* ------------------------------------------------------------------ addShop
AddRequests ==
  [name : Names, ownerName : Owners, address : Addrs, type : Types, distributorId : Dists]
  \cup [name : {None}, ownerName : {<<"o">>}, address : Addrs,
        type : {"Retailer"}, distributorId : {"D1", "D3"}]
  \cup [name : {<<"a">>}, ownerName : {<<"o">>}, address : Addrs,
        type : {"Retailer", "Other"}, distributorId : {"D1", "D3"}]

AddInvalid(req) ==
  req.name = None \/ req.ownerName = None \/ req.address = None

ExistingShopSameIdentity(sh, req) ==
  \E i \in DOMAIN sh : /\ sh[i].name = req.name
                        /\ sh[i].ownerName = req.ownerName
                        /\ sh[i].address = req.address
                        /\ sh[i].distributorId = req.distributorId
                        /\ sh[i].isActive

ExistingShop(sh, req) ==
  \E i \in DOMAIN sh : /\ sh[i].name = req.name
                        /\ sh[i].distributorId = req.distributorId
                        /\ sh[i].isActive

NewShop(req) ==
  [name |-> req.name, ownerName |-> req.ownerName, address |-> req.address,
   type |-> req.type, distributorId |-> req.distributorId, isActive |-> TRUE]

AddShopOp(req, f) ==
  IF AddInvalid(req) THEN
    /\ Respond("add", "validation", {})
    /\ UNCHANGED <<shops, dist>>
  ELSE IF ~Exists(dist, req.distributorId) THEN
    /\ Respond("add", "notfound", {})
    /\ UNCHANGED <<shops, dist>>
  ELSE IF ExistingShop(shops, req) THEN
    /\ Respond("add", "conflict", {})
    /\ UNCHANGED <<shops, dist>>
  ELSE IF req.type \notin Types THEN
    /\ Respond("add", "validation", {})
    /\ UNCHANGED <<shops, dist>>
  ELSE
    LET d == req.distributorId
        field == UpdateField(req.type)
        id == Len(shops) + 1
        sh1 == Append(shops, NewShop(req))
        shopExists == HasEntry(dist[d][field], req.name, req.ownerName, req.address)
        ds1 == IF shopExists THEN dist
               ELSE [dist EXCEPT ![d][field] =
                       Append(@, Entry(req.name, req.ownerName, req.address, id))]
    IN /\ Len(shops) < MaxShops
       /\ shops' = sh1
       /\ IF ~shopExists /\ f = "mirror"
          THEN /\ dist' = dist
               /\ Respond("add", "error", {})
          ELSE /\ dist' = SyncDistributorShopCounts(sh1, ds1, d, f)
               /\ Respond("add", "ok", Synced(ds1, d, f))
       /\ WithinBounds(dist')

AddShop ==
  /\ steps < MaxSteps
  /\ \E req \in AddRequests : AddShopOp(req, "none")

AddShopFault ==
  /\ steps < MaxSteps
  /\ \E req \in AddRequests, f \in Faults \ {"none", "push"} :
       ~AddInvalid(req) /\ Exists(dist, req.distributorId) /\ AddShopOp(req, f)

\* --------------------------------------------------------------- updateShop
UpdateRequests ==
  [name : Names \cup {None}, ownerName : {None, <<"p">>}, address : {None},
   type : Types \cup {""}, distributorId : Dists \cup {""}]
  \cup [name : {<<"a">>}, ownerName : {None}, address : {None},
        type : {"Other"}, distributorId : {"", "D2"}]
  \cup [name : {<<"a">>}, ownerName : {None}, address : {None},
        type : {"", "Whole Seller"}, distributorId : {"D3"}]

OrTakesSupplied(x, y) == x

Or(x, y) == IF x # None THEN x ELSE y

OrId(x, y) == IF x # "" THEN x ELSE y

UpdatedShop(old, req) ==
  [old EXCEPT !.name = Or(req.name, old.name),
              !.ownerName = Or(req.ownerName, old.ownerName),
              !.address = Or(req.address, old.address),
              !.type = OrId(req.type, old.type),
              !.distributorId = OrId(req.distributorId, old.distributorId)]

NewDistributorNotVerified(ds, old, req) == FALSE

NewDistributorMissing(ds, old, req) ==
  /\ req.distributorId # ""
  /\ req.distributorId # old.distributorId
  /\ ~Exists(ds, req.distributorId)

\* The entry the $pull of updateShop matches: the fields of `shop`, which line 368
\* has reassigned to the updated document.
PullTarget(old, shop) == shop

FirstIndex(arr, fld, v) ==
  IF \E i \in 1..Len(arr) : arr[i][fld] = v
  THEN CHOOSE i \in 1..Len(arr) :
         /\ arr[i][fld] = v
         /\ \A j \in 1..(i - 1) : arr[j][fld] # v
  ELSE 0

\* Positions the positional operator `$` may resolve to: the query names three
\* separate conditions on the array, without $elemMatch.
PatchPositions(arr, shop) ==
  {FirstIndex(arr, "shopName", shop.name),
   FirstIndex(arr, "ownerName", shop.ownerName),
   FirstIndex(arr, "address", shop.address)} \ {0}

PatchEntry(e, req) ==
  [e EXCEPT !.shopName = Or(req.name, @),
            !.ownerName = Or(req.ownerName, @),
            !.address = Or(req.address, @)]

UpdateShopOp(id, req, f) ==
  IF id \notin DOMAIN shops THEN
    /\ Respond("update", "notfound", {})
    /\ UNCHANGED <<shops, dist>>
  ELSE IF NewDistributorMissing(dist, shops[id], req) THEN
    /\ Respond("update", "notfound", {})
    /\ UNCHANGED <<shops, dist>>
  ELSE IF OrId(req.type, shops[id].type) \notin Types THEN
    /\ Respond("update", "validation", {})
    /\ UNCHANGED <<shops, dist>>
  ELSE
    LET old == shops[id]
        shop == UpdatedShop(old, req)
        sh1 == [shops EXCEPT ![id] = shop]
        origD == old.distributorId
        newD == shop.distributorId
        origField == UpdateField(old.type)
        newField == UpdateField(shop.type)
        target == PullTarget(old, shop)
        moved == newD # origD \/ shop.type # old.type
        details == req.name # None \/ req.ownerName # None \/ req.address # None
        arr == dist[origD][origField]
        found == HasEntry(arr, shop.name, shop.ownerName, shop.address)
        pulled == [dist EXCEPT ![origD][origField] =
                     Pull(@, target.name, target.ownerName, target.address)]
        pushed == [pulled EXCEPT ![newD][newField] =
                     Append(@, Entry(shop.name, shop.ownerName, shop.address, id))]
        Patched(pos) == [dist EXCEPT ![origD][origField][pos] = PatchEntry(@, req)]
        SyncBoth(ds) ==
          LET sync1 == SyncDistributorShopCounts(sh1, ds, origD, f)
          IN IF newD # origD THEN SyncDistributorShopCounts(sh1, sync1, newD, f)
             ELSE sync1
    IN /\ shops' = sh1
       /\ IF ~Exists(dist, origD) THEN
            /\ dist' = dist
            /\ Respond("update", "ok", {})
          ELSE IF moved THEN
            IF f = "mirror" THEN
              /\ dist' = dist
              /\ Respond("update", "error", {})
            ELSE IF f = "push" THEN
              /\ dist' = pulled
              /\ Respond("update", "error", {})
            ELSE
              /\ dist' = SyncBoth(pushed)
              /\ Respond("update", "ok", Synced(dist, origD, f) \cup Synced(dist, newD, f))
          ELSE IF details /\ found THEN
            IF f = "mirror" THEN
              /\ dist' = dist
              /\ Respond("update", "error", {})
            ELSE
              /\ \E pos \in PatchPositions(arr, shop) : dist' = SyncBoth(Patched(pos))
              /\ Respond("update", "ok", Synced(dist, origD, f))
          ELSE
            /\ dist' = SyncBoth(dist)
            /\ Respond("update", "ok", Synced(dist, origD, f))
       /\ WithinBounds(dist')

\* The bodies tried on shop id.  A type or distributorId equal to the shop's own is
\* left out: the handler reads them only through `type || originalType` and
\* `distributorId && distributorId !== originalDistributorId`, where they act as
\* the missing field does.  A shop id that resolves to no shop ends in NotFound
\* whatever the body holds.
UpdateRequestsFor(id) ==
  IF id \in DOMAIN shops
  THEN {req \in UpdateRequests :
          req.type # shops[id].type /\ req.distributorId # shops[id].distributorId}
  ELSE {req \in UpdateRequests : req.name = None /\ req.ownerName = None}

UpdateShop ==
  /\ steps < MaxSteps
  /\ \E id \in 1..MaxShops : \E req \in UpdateRequestsFor(id) : UpdateShopOp(id, req, "none")

UpdateShopFault ==
  /\ steps < MaxSteps
  /\ \E id \in DOMAIN shops : \E req \in UpdateRequestsFor(id), f \in Faults \ {"none"} :
       UpdateShopOp(id, req, f)

\* --------------------------------------------------------------- deleteShop
DeleteShopOp(id, f) ==
  IF id \notin DOMAIN shops THEN
    /\ Respond("delete", "notfound", {})
    /\ UNCHANGED <<shops, dist>>
  ELSE
    LET shop == shops[id]
        d == shop.distributorId
        field == UpdateField(shop.type)
        sh1 == [shops EXCEPT ![id].isActive = FALSE]
        found == Exists(dist, d)
                 /\ HasEntry(dist[d][field], shop.name, shop.ownerName, shop.address)
        ds1 == IF found
               THEN [dist EXCEPT ![d][field] =
                       Pull(@, shop.name, shop.ownerName, shop.address)]
               ELSE dist
    IN /\ shops' = sh1
       /\ IF found /\ f = "mirror"
          THEN /\ dist' = dist
               /\ Respond("delete", "error", {})
          ELSE /\ dist' = SyncDistributorShopCounts(sh1, ds1, d, f)
               /\ Respond("delete", "ok", Synced(ds1, d, f))

DeleteShop ==
  /\ steps < MaxSteps
  /\ \E id \in 1..MaxShops : DeleteShopOp(id, "none")

DeleteShopFault ==
  /\ steps < MaxSteps
  /\ \E id \in DOMAIN shops, f \in Faults \ {"none", "push"} : DeleteShopOp(id, f)

\* ---------------------------------------------------- getShopsByDistributor
CodePoint(c) ==
  CASE c = "-" -> 45
    [] c = "A" -> 65
    [] c = "a" -> 97
    [] c = "b" -> 98
    [] c = "c" -> 99
    [] c = "o" -> 111
    [] c = "p" -> 112
    [] c = "x" -> 120
    [] OTHER -> 0

RECURSIVE BinaryLess(_, _)
BinaryLess(s, t) ==
  IF t = <<>> THEN FALSE
  ELSE IF s = <<>> THEN TRUE
  ELSE IF CodePoint(Head(s)) # CodePoint(Head(t))
       THEN CodePoint(Head(s)) < CodePoint(Head(t))
       ELSE BinaryLess(Tail(s), Tail(t))

\* localeCompare: letters compare by base letter first (punctuation before letters),
\* and only strings equal up to case are ordered by case, lower case first.
RECURSIVE LocaleLess(_, _)
LocaleLess(s, t) ==
  IF ToLowerCase(s) # ToLowerCase(t) THEN BinaryLess(ToLowerCase(s), ToLowerCase(t))
  ELSE IF s = <<>> THEN FALSE
  ELSE IF Head(s) # Head(t) THEN Head(s) = Lower(Head(s))
  ELSE LocaleLess(Tail(s), Tail(t))

NameLess(order, s, t) ==
  IF order = "binary" THEN BinaryLess(s, t) ELSE LocaleLess(s, t)

RECURSIVE InsertSorted(_, _, _)
InsertSorted(x, sorted, order) ==
  IF sorted = <<>> THEN <<x>>
  ELSE IF NameLess(order, x.name, Head(sorted).name) THEN <<x>> \o sorted
  ELSE <<Head(sorted)>> \o InsertSorted(x, Tail(sorted), order)

RECURSIVE SortByName(_, _)
SortByName(seq, order) ==
  IF seq = <<>> THEN <<>>
  ELSE InsertSorted(seq[Len(seq)], SortByName(SubSeq(seq, 1, Len(seq) - 1), order), order)

RECURSIVE ShopViews(_, _, _, _)
ShopViews(sh, i, d, t) ==
  IF i > Len(sh) THEN <<>>
  ELSE (IF sh[i].distributorId = d /\ sh[i].isActive /\ (t = "" \/ sh[i].type = t)
        THEN <<[name |-> sh[i].name, ownerName |-> sh[i].ownerName,
                address |-> sh[i].address, type |-> sh[i].type,
                isLegacy |-> FALSE, id |-> i, mirrorOf |-> 0]>>
        ELSE <<>>)
       \o ShopViews(sh, i + 1, d, t)

RECURSIVE LegacyViews(_, _, _)
LegacyViews(arr, t, keys) ==
  IF arr = <<>> THEN <<>>
  ELSE (IF LegacyKey(Head(arr)) \notin keys
        THEN <<[name |-> Head(arr).shopName, ownerName |-> Head(arr).ownerName,
                address |-> Head(arr).address, type |-> t,
                isLegacy |-> TRUE, id |-> 0, mirrorOf |-> Head(arr).mirrorOf]>>
        ELSE <<>>)
       \o LegacyViews(Tail(arr), t, keys)

ListShops(sh, ds, d, t) ==
  LET shopCollectionShops == SortByName(ShopViews(sh, 1, d, t), "binary")
      shopCollectionMap == {ShopKey(shopCollectionShops[i].name,
                                    shopCollectionShops[i].ownerName,
                                    shopCollectionShops[i].address)
                            : i \in 1..Len(shopCollectionShops)}
      retailShops == IF t = "" \/ t = "Retailer"
                     THEN LegacyViews(ds[d].retailShops, "Retailer", shopCollectionMap)
                     ELSE <<>>
      wholesaleShops == IF t = "" \/ t = "Whole Seller"
                        THEN LegacyViews(ds[d].wholesaleShops, "Whole Seller", shopCollectionMap)
                        ELSE <<>>
  IN SortByName(shopCollectionShops \o retailShops \o wholesaleShops, "locale")

GetShopsByDistributorOp(d, f) ==
  IF ~Exists(dist, d) THEN
    /\ Respond("list", "notfound", {})
    /\ UNCHANGED <<shops, dist>>
  ELSE
    /\ dist' = SyncDistributorShopCounts(shops, dist, d, f)
    /\ Respond("list", "ok", Synced(dist, d, f))
    /\ UNCHANGED shops

GetShopsByDistributor ==
  /\ steps < MaxSteps
  /\ \E d \in DistIds : GetShopsByDistributorOp(d, "none")

GetShopsByDistributorFault ==
  /\ steps < MaxSteps
  /\ \E d \in Dists : GetShopsByDistributorOp(d, "sync")

\* ---------------------------------------------------------------- syncCounts
SyncCountsOp(d) ==
  /\ dist' = SyncDistributorShopCounts(shops, dist, d, "none")
  /\ Respond("sync", "ok", Synced(dist, d, "none"))
  /\ UNCHANGED shops

SyncCounts ==
  /\ steps < MaxSteps
  /\ \E d \in DistIds : SyncCountsOp(d)

\* ------------------------------------------------------------ specifications
Next == AddShop \/ UpdateShop \/ DeleteShop \/ GetShopsByDistributor \/ SyncCounts

Spec == Init /\ [][Next]_vars

\* The same handlers when a write to the Distributor document, or the store
\* access inside the reconciler, may throw.
NextFault ==
  \/ Next
  \/ AddShopFault
  \/ UpdateShopFault
  \/ DeleteShopFault
  \/ GetShopsByDistributorFault

SpecFault == Init /\ [][NextFault]_vars

\* Longer runs of the same handlers on fewer request bodies, from a store whose
\* legacy arrays are empty, and with the removal of a Distributor document
\* (DELETE /api/distributors/:id), which leaves the shops that name it behind.
InitEmpty ==
  /\ shops = <<>>
  /\ dist = [d \in Dists |->
               [retailShops |-> <<>>, wholesaleShops |-> <<>>,
                retailShopCount |-> 0, wholesaleShopCount |-> 0]]
  /\ last = [op |-> "init", res |-> "ok", synced |-> {}]
  /\ steps = 0
  /\ NoneInFlight

AddRequestsLong ==
  {req \in AddRequests :
     /\ req.name # None
     /\ req.ownerName = <<"o">>
     /\ req.type = "Retailer"
     /\ req.distributorId \in Dists}

UpdateRequestsLong(id) ==
  {req \in UpdateRequestsFor(id) :
     /\ req.name \in {None, <<"A">>}
     /\ req.ownerName = None
     /\ req.type = ""
     /\ req.distributorId \in Dists \cup {""}}

DeleteDistributorOp(d) ==
  /\ Exists(dist, d)
  /\ dist' = [x \in DOMAIN dist \ {d} |-> dist[x]]
  /\ Respond("deleteDistributor", "ok", {})
  /\ UNCHANGED shops

AddShopLong ==
  /\ steps < MaxStepsLong
  /\ \E req \in AddRequestsLong : AddShopOp(req, "none")

UpdateShopLong ==
  /\ steps < MaxStepsLong
  /\ \E id \in DOMAIN shops : \E req \in UpdateRequestsLong(id) : UpdateShopOp(id, req, "none")

DeleteShopLong ==
  /\ steps < MaxStepsLong
  /\ \E id \in DOMAIN shops : DeleteShopOp(id, "none")

GetShopsByDistributorLong ==
  /\ steps < MaxStepsLong
  /\ \E d \in Dists : GetShopsByDistributorOp(d, "none")

DeleteDistributor ==
  /\ steps < MaxStepsLong
  /\ \E d \in Dists : DeleteDistributorOp(d)

NextLong ==
  \/ AddShopLong
  \/ UpdateShopLong
  \/ DeleteShopLong
  \/ GetShopsByDistributorLong
  \/ DeleteDistributor

SpecLong == InitEmpty /\ [][NextLong]_vars

\* The handlers on fields that contain the character that joins the identity key:
\* one historical retail entry 'a' / 'b-c' / 'x' of D1, counted, and requests that
\* name shops 'a' or 'a-b' of owners 'c' or 'b-c'.
DelimiterEntry ==
  [shopName |-> <<"a">>, ownerName |-> <<"b", "-", "c">>, address |-> <<"x">>, mirrorOf |-> 0]

InitDelimiter ==
  /\ shops = <<>>
  /\ dist = [d \in Dists |->
               [retailShops |-> IF d = "D1" THEN <<DelimiterEntry>> ELSE <<>>,
                wholesaleShops |-> <<>>,
                retailShopCount |-> IF d = "D1" THEN 1 ELSE 0,
                wholesaleShopCount |-> 0]]
  /\ last = [op |-> "init", res |-> "ok", synced |-> {}]
  /\ steps = 0
  /\ NoneInFlight

AddRequestsDelimiter ==
  [name : {<<"a">>, <<"a", "-", "b">>}, ownerName : {<<"c">>, <<"b", "-", "c">>},
   address : Addrs, type : Types, distributorId : Dists]

AddShopDelimiter ==
  /\ steps < MaxSteps
  /\ \E req \in AddRequestsDelimiter : AddShopOp(req, "none")

NextDelimiter ==
  \/ AddShopDelimiter
  \/ DeleteShop
  \/ GetShopsByDistributor

SpecDelimiter == InitDelimiter /\ [][NextDelimiter]_vars

\* ------------------------------------------------------------------- claims
Count(ds, d, t) == IF t = "Retailer" THEN ds[d].retailShopCount ELSE ds[d].wholesaleShopCount

LegacyOf(ds, d, t) == ds[d][UpdateField(t)]

KeyOfShop(s) == ShopKey(s.name, s.ownerName, s.address)

\* C1: right after syncCounts(d) completes, each count of d equals the number of
\* distinct identity keys among d's active shops of the type and d's legacy entries
\* of the type.
C1_DistinctKeyCounts ==
  \A d \in last.synced : \A t \in Types :
    Count(dist, d, t) =
      Cardinality({KeyOfShop(shops[i]) : i \in ActiveOf(shops, d, t)}
                  \cup {LegacyKey(LegacyOf(dist, d, t)[i]) : i \in 1..Len(LegacyOf(dist, d, t))})

\* C2: in every reachable state, a second syncCounts(d) right after a first one
\* writes nothing and leaves both counts as the first run left them.
C2_SyncIdempotent ==
  \A d \in DistIds :
    LET first == SyncDistributorShopCounts(shops, dist, d, "none")
    IN /\ Exists(first, d) => ~SyncWrites(shops, first, d)
       /\ SyncDistributorShopCounts(shops, first, d, "none") = first

C2_Witness ==
  /\ last.op = "sync"
  /\ last.synced = {"D1"}
  /\ steps = 1
  /\ dist["D1"].retailShopCount = 1

\* C3: a legacy entry whose identity key equals the key of an active shop of the
\* same distributor and type adds nothing to the count syncCounts writes; one legacy
\* retail entry plus one active Retailer shop with the same fields count as 1.
C3_DedupCorrectness ==
  \A d \in last.synced :
    /\ \A t \in Types :
         Count(dist, d, t) =
           Cardinality(ActiveOf(shops, d, t))
           + Len(SelectSeq(LegacyOf(dist, d, t),
                           LAMBDA e : \A i \in ActiveOf(shops, d, t) :
                                        KeyOfShop(shops[i]) # LegacyKey(e)))
    /\ \A i \in DOMAIN shops :
         ( /\ ActiveOf(shops, d, "Retailer") = {i}
           /\ Len(dist[d].retailShops) = 1
           /\ Matches(dist[d].retailShops[1], shops[i].name, shops[i].ownerName,
                      shops[i].address) )
         => dist[d].retailShopCount = 1

C3_Witness ==
  \E d \in last.synced : \E i \in DOMAIN shops :
    /\ ActiveOf(shops, d, "Retailer") = {i}
    /\ Len(dist[d].retailShops) = 1
    /\ Matches(dist[d].retailShops[1], shops[i].name, shops[i].ownerName, shops[i].address)
    /\ dist[d].retailShopCount = 1

\* C4: the count syncCounts writes for a type is the number of active shops of the
\* distributor and type plus the number of legacy entries of the type whose key
\* matches no such shop; one unmatched legacy retail entry plus one active Retailer
\* shop count as 2.
C4_AdditiveCorrectness ==
  \A d \in last.synced :
    /\ \A t \in Types :
         Count(dist, d, t) =
           Cardinality(ActiveOf(shops, d, t))
           + Cardinality({k \in 1..Len(LegacyOf(dist, d, t)) :
                            LegacyKey(LegacyOf(dist, d, t)[k])
                              \notin {KeyOfShop(shops[i]) : i \in ActiveOf(shops, d, t)}})
    /\ \A i \in DOMAIN shops :
         ( /\ ActiveOf(shops, d, "Retailer") = {i}
           /\ Len(dist[d].retailShops) = 1
           /\ \A j \in DOMAIN shops :
                LegacyKey(dist[d].retailShops[1]) # KeyOfShop(shops[j]) )
         => dist[d].retailShopCount = 2

C4_Witness ==
  \E d \in last.synced : \E i \in DOMAIN shops :
    /\ ActiveOf(shops, d, "Retailer") = {i}
    /\ Len(dist[d].retailShops) = 1
    /\ \A j \in DOMAIN shops : LegacyKey(dist[d].retailShops[1]) # KeyOfShop(shops[j])
    /\ dist[d].retailShopCount = 2

OthersWithKey(sh, ds, id, d, t, key) ==
  \/ \E j \in ActiveOf(sh, d, t) \ {id} : KeyOfShop(sh[j]) = key
  \/ \E k \in 1..Len(LegacyOf(ds, d, t)) :
       /\ LegacyKey(LegacyOf(ds, d, t)[k]) = key
       /\ LegacyOf(ds, d, t)[k].mirrorOf # id

\* C5: when updateShop moves an active shop from distributor X to another existing
\* distributor Y, then afterwards (a) the persisted counts of X and Y are what
\* syncCounts computes, X's total for the original type is one less and Y's total
\* for the new type one more than before (no other record of X or Y carrying the
\* shop's old or new key), and (b) the legacy entry with the shop's pre-update
\* fields, if X's array held one, is gone from X's array and an entry with the
\* shop's fields is in Y's array for the new type; whatever else the update changes.
C5_TransferConsistency ==
  [][\A id \in DOMAIN shops :
       ( /\ last'.op = "update"
         /\ last'.res = "ok"
         /\ shops[id].isActive
         /\ shops'[id].distributorId # shops[id].distributorId )
       => LET old == shops[id]
              new == shops'[id]
              X == old.distributorId
              Y == new.distributorId
          IN /\ \A t \in Types : /\ Count(dist', X, t) = TotalCount(shops', dist', X, t)
                                 /\ Count(dist', Y, t) = TotalCount(shops', dist', Y, t)
             /\ ( /\ ~OthersWithKey(shops, dist, id, X, old.type, KeyOfShop(old))
                  /\ ~OthersWithKey(shops, dist, id, Y, new.type, KeyOfShop(new)) )
                => /\ TotalCount(shops', dist', X, old.type)
                        = TotalCount(shops, dist, X, old.type) - 1
                   /\ TotalCount(shops', dist', Y, new.type)
                        = TotalCount(shops, dist, Y, new.type) + 1
             /\ HasEntry(LegacyOf(dist, X, old.type), old.name, old.ownerName, old.address)
                => /\ ~HasEntry(LegacyOf(dist', X, old.type),
                                old.name, old.ownerName, old.address)
                   /\ HasEntry(LegacyOf(dist', Y, new.type),
                               new.name, new.ownerName, new.address)
    ]_vars

WithoutMirrorsOf(ds, d, id, key) ==
  [ds EXCEPT ![d].retailShops =
               SelectSeq(@, LAMBDA e : ~(e.mirrorOf = id /\ LegacyKey(e) = key)),
             ![d].wholesaleShops =
               SelectSeq(@, LAMBDA e : ~(e.mirrorOf = id /\ LegacyKey(e) = key))]

\* C6: after deleteShop succeeds on an active shop s of distributor d, (a) the
\* record still exists, inactive; (b) no listing of d holds the record or a legacy
\* entry created as its mirror that carries its identity key; (c) s adds nothing to
\* the totals syncCounts computes for d.
C6_SoftDeleteExclusion ==
  [][\A id \in DOMAIN shops :
       ( /\ last'.op = "delete"
         /\ last'.res = "ok"
         /\ shops[id].isActive
         /\ ~shops'[id].isActive )
       => LET s == shops'[id]
              d == s.distributorId
          IN /\ Len(shops') = Len(shops)
             /\ \A f \in Types \cup {""} :
                  \A k \in 1..Len(ListShops(shops', dist', d, f)) :
                    LET x == ListShops(shops', dist', d, f)[k]
                    IN /\ x.id # id
                       /\ ~(x.isLegacy /\ x.mirrorOf = id
                            /\ ShopKey(x.name, x.ownerName, x.address) = KeyOfShop(s))
             /\ \A t \in Types :
                  TotalCount(shops', dist', d, t)
                    = TotalCount(shops', WithoutMirrorsOf(dist', d, id, KeyOfShop(s)), d, t)
    ]_vars

ActiveNamed(sh, n, d) ==
  {i \in DOMAIN sh : sh[i].name = n /\ sh[i].distributorId = d /\ sh[i].isActive}

C8_UniqueActiveKeys ==
  \A i \in DOMAIN shops : \A j \in DOMAIN shops :
    ( /\ i # j
      /\ shops[i].isActive
      /\ shops[j].isActive
      /\ shops[i].distributorId = shops[j].distributorId )
    => KeyOfShop(shops[i]) # KeyOfShop(shops[j])

\* C9: once the Shop write of addShop, updateShop or deleteShop has happened, the
\* caller receives the success result, whatever fails afterwards.
C9_BestEffortSecondarySteps ==
  [][shops' # shops => last'.res = "ok"]_vars

ErrorResults == {"validation", "notfound", "conflict"}

RejectedUpdates ==
  {req \in UpdateRequests :
     req.distributorId \notin Dists \cup {""} \/ req.type \notin Types \cup {""}}

RejectedAdds ==
  {req \in AddRequests :
     req.name = None \/ req.distributorId \notin Dists \/ req.type \notin Types}

\* C10: an operation that ends with a validation error, NotFound or Conflict leaves
\* the Shop records, the legacy arrays and the counts as they were; an update that
\* names a new distributor that does not exist, and any operation on a shop or a
\* distributor that does not exist, ends that way.
C10_ErrorsChangeNothing ==
  [][/\ last'.res \in ErrorResults => (shops' = shops /\ dist' = dist)
     /\ (last'.op = "update" /\ last'.res \notin ErrorResults) =>
          /\ \A id \in 1..MaxShops : \A req \in RejectedUpdates :
               ~UpdateShopOp(id, req, "none")
          /\ \A id \in 1..MaxShops \ DOMAIN shops : \A req \in UpdateRequestsFor(id) :
               ~UpdateShopOp(id, req, "none")
     /\ (last'.op = "add" /\ last'.res \notin ErrorResults) =>
          \A req \in RejectedAdds : ~AddShopOp(req, "none")
     /\ (last'.op = "delete" /\ last'.res \notin ErrorResults) =>
          \A id \in 1..MaxShops \ DOMAIN shops : ~DeleteShopOp(id, "none")
     /\ (last'.op = "list" /\ last'.res \notin ErrorResults) =>
          \A d \in DistIds \ Dists : ~GetShopsByDistributorOp(d, "none")
    ]_vars

C10_Witness ==
  /\ last.op = "update"
  /\ last.res = "notfound"
  /\ shops # <<>>
  /\ \E d \in Dists : dist[d].retailShops # <<>>

\* C11: deleteShop on a shop that is already inactive succeeds and changes nothing:
\* no Shop record, no legacy entry of any distributor and no count.
C11_SoftDeleteIdempotent ==
  [][\A id \in DOMAIN shops :
       ( /\ last'.op = "delete"
         /\ ~shops[id].isActive
         /\ DeleteShopOp(id, "none") )
       => /\ last'.res = "ok"
          /\ shops' = shops
          /\ dist' = dist
    ]_vars

\* C12: a Shop record is never removed; an active record changes only through
\* updateShop (its fields, type, distributor) or deleteShop (to inactive); an
\* inactive record never changes again.
C12_ShopStateMachine ==
  [][/\ Len(shops') >= Len(shops)
     /\ \A id \in DOMAIN shops :
          /\ ~shops[id].isActive => shops'[id] = shops[id]
          /\ shops'[id] # shops[id] =>
               \/ /\ last'.op = "delete"
                  /\ shops'[id] = [shops[id] EXCEPT !.isActive = FALSE]
               \/ /\ last'.op = "update"
                  /\ shops'[id].isActive
    ]_vars

WithoutKey(ds, d, key) ==
  [ds EXCEPT ![d].retailShops = SelectSeq(@, LAMBDA e : LegacyKey(e) # key),
             ![d].wholesaleShops = SelectSeq(@, LAMBDA e : LegacyKey(e) # key)]

\* C13: from empty legacy arrays, and with every distributor still there, an
\* inactive shop is in no listing and in no count: unless an active shop carries its
\* identity key, no element of a distributor's listing has that key, and the totals
\* syncCounts computes (and has written, for a distributor just synced) are those of
\* the arrays without entries of that key.
C13_InactiveExcluded ==
  DOMAIN dist = Dists =>
    \A id \in DOMAIN shops :
      ( /\ ~shops[id].isActive
        /\ \A j \in DOMAIN shops : shops[j].isActive => KeyOfShop(shops[j]) # KeyOfShop(shops[id]) )
      => \A d \in Dists :
           /\ \A f \in Types \cup {""} :
                \A k \in 1..Len(ListShops(shops, dist, d, f)) :
                  KeyOfShop(ListShops(shops, dist, d, f)[k]) # KeyOfShop(shops[id])
           /\ \A t \in Types :
                /\ TotalCount(shops, dist, d, t)
                     = TotalCount(shops, WithoutKey(dist, d, KeyOfShop(shops[id])), d, t)
                /\ d \in last.synced =>
                     Count(dist, d, t)
                       = TotalCount(shops, WithoutKey(dist, d, KeyOfShop(shops[id])), d, t)

\* C14: a step changes a count of a distributor only by running syncCounts for it:
\* the distributor is among those the step synced, and every count it carries
\* afterwards is the total syncCounts computes from the Shop records and legacy
\* arrays the step leaves, never the old count plus or minus something.
C14_CountsOnlyBySync ==
  [][\A d \in Dists :
       (\E t \in Types : Count(dist', d, t) # Count(dist, d, t))
       => /\ d \in last'.synced
          /\ \A t \in Types : Count(dist', d, t) = TotalCount(shops', dist', d, t)
    ]_vars

C14_Witness ==
  /\ last.op = "update"
  /\ last.synced = {"D1", "D2"}
  /\ Len(shops) = 1
  /\ dist["D1"].retailShopCount = 1
  /\ dist["D2"].wholesaleShopCount = 1

\* C15: syncCounts on a distributorId that resolves to no distributor returns
\* without an error and writes nothing: every distributor document and every Shop
\* record is as before.
C15_SyncMissingDistributor ==
  [][\A d \in DistIds :
       ( /\ last'.op = "sync"
         /\ ~Exists(dist, d)
         /\ SyncCountsOp(d) )
       => /\ last'.res = "ok"
          /\ shops' = shops
          /\ dist' = dist
    ]_vars

C15_Witness ==
  /\ last.op = "sync"
  /\ last.res = "ok"
  /\ last.synced = {}
  /\ shops # <<>>
  /\ \E d \in Dists : dist[d].retailShopCount > 0

Upper(c) ==
  CASE c = "a" -> "A"
    [] c = "b" -> "B"
    [] c = "o" -> "O"
    [] c = "p" -> "P"
    [] c = "x" -> "X"
    [] OTHER -> c

SameButCase(s, t) ==
  /\ Len(s) = Len(t)
  /\ \A i \in 1..Len(s) : s[i] = t[i] \/ Upper(s[i]) = t[i] \/ s[i] = Upper(t[i])

CaseNames == {<<"a", "b">>, <<"A", "b">>, <<"a", "B">>, <<"A", "B">>, <<"a">>, <<"A">>}
CaseOwners == {<<"o">>, <<"O">>, <<"p">>}
CaseAddrs == {<<"x">>, <<"X">>}

KeysIgnoreCase ==
  \A n1 \in CaseNames, n2 \in CaseNames, o1 \in CaseOwners, o2 \in CaseOwners,
     a1 \in CaseAddrs, a2 \in CaseAddrs :
    /\ (SameButCase(n1, n2) /\ SameButCase(o1, o2) /\ SameButCase(a1, a2))
         => /\ ShopKey(n1, o1, a1) = ShopKey(n2, o2, a2)
            /\ LegacyKey(Entry(n1, o1, a1, 0)) = KeyOfShop([name |-> n2, ownerName |-> o2,
                                                            address |-> a2])
    /\ ~SameButCase(o1, o2) => ShopKey(n1, o1, a1) # ShopKey(n1, o2, a1)

Records ==
  {[name |-> shops[i].name, ownerName |-> shops[i].ownerName, address |-> shops[i].address,
    key |-> KeyOfShop(shops[i])] : i \in DOMAIN shops}
  \cup UNION {{[name |-> dist[d][fld][k].shopName, ownerName |-> dist[d][fld][k].ownerName,
                address |-> dist[d][fld][k].address, key |-> LegacyKey(dist[d][fld][k])]
               : k \in 1..Len(dist[d][fld])}
              : d \in DOMAIN dist, fld \in {"retailShops", "wholesaleShops"}}

\* C16: identity keys ignore letter case: two triples (name, ownerName, address)
\* that differ only in the case of letters have the same key, whether the key is
\* built from a Shop record or from a legacy entry; so a legacy entry that differs
\* from an active shop of its distributor and type only in case is not counted by
\* syncCounts.
C16_KeysIgnoreCase ==
  /\ KeysIgnoreCase
  /\ \A r1 \in Records, r2 \in Records :
       ( /\ SameButCase(r1.name, r2.name)
         /\ SameButCase(r1.ownerName, r2.ownerName)
         /\ SameButCase(r1.address, r2.address) )
       => r1.key = r2.key
  /\ \A d \in last.synced : \A t \in Types :
       (\A k \in 1..Len(LegacyOf(dist, d, t)) : \E i \in ActiveOf(shops, d, t) :
          /\ SameButCase(LegacyOf(dist, d, t)[k].shopName, shops[i].name)
          /\ SameButCase(LegacyOf(dist, d, t)[k].ownerName, shops[i].ownerName)
          /\ SameButCase(LegacyOf(dist, d, t)[k].address, shops[i].address))
       => Count(dist, d, t) = Cardinality(ActiveOf(shops, d, t))

C16_Witness ==
  /\ "D1" \in last.synced
  /\ Len(dist["D1"].retailShops) = 2
  /\ dist["D1"].retailShops[1].shopName = <<"A">>
  /\ dist["D1"].retailShops[2].shopName = <<"a">>
  /\ ActiveOf(shops, "D1", "Retailer") = {1}
  /\ dist["D1"].retailShopCount = 1

HasKey(arr, key) == \E k \in 1..Len(arr) : LegacyKey(arr[k]) = key

\* C17: a successful addShop appends a legacy entry to the array of the shop's type
\* only if no entry of that array has the shop's identity key; when one has, the
\* array is left as it was.
C17_MirrorOnlyIfNoSameKey ==
  [][\A req \in AddRequests :
       ( /\ last'.op = "add"
         /\ last'.res = "ok"
         /\ AddShopOp(req, "none") )
       => LET d == req.distributorId
              fld == UpdateField(req.type)
          IN IF HasKey(dist[d][fld], ShopKey(req.name, req.ownerName, req.address))
             THEN dist'[d][fld] = dist[d][fld]
             ELSE dist'[d][fld] =
                    Append(dist[d][fld],
                           Entry(req.name, req.ownerName, req.address, Len(shops')))
    ]_vars

\* C18: when updateShop changes name, ownerName or address of a shop and leaves its
\* type and distributor, and the distributor's array for the type holds an entry
\* with the shop's fields as they were before the update, then afterwards the
\* array holds an entry with the new fields and none with the old ones.
C18_PatchInPlace ==
  [][\A id \in DOMAIN shops :
       ( /\ last'.op = "update"
         /\ last'.res = "ok"
         /\ shops'[id] # shops[id]
         /\ shops'[id].type = shops[id].type
         /\ shops'[id].distributorId = shops[id].distributorId
         /\ Exists(dist, shops[id].distributorId)
         /\ HasEntry(LegacyOf(dist, shops[id].distributorId, shops[id].type),
                     shops[id].name, shops[id].ownerName, shops[id].address) )
       => LET arr == LegacyOf(dist', shops[id].distributorId, shops[id].type)
          IN /\ HasEntry(arr, shops'[id].name, shops'[id].ownerName, shops'[id].address)
             /\ ~HasEntry(arr, shops[id].name, shops[id].ownerName, shops[id].address)
    ]_vars

TypeOnlyUpdate(id) ==
  /\ last'.op = "update"
  /\ last'.res = "ok"
  /\ shops[id].isActive
  /\ shops'[id].type # shops[id].type
  /\ shops'[id] = [shops[id] EXCEPT !.type = shops'[id].type]
  /\ Exists(dist, shops[id].distributorId)

\* A record of distributor d other than shop id and its exact mirror entries that
\* carries the key: an active shop, or a legacy entry of either array whose fields
\* are not exactly the shop's.
KeySharedAt(sh, ds, id, d) ==
  \/ \E j \in DOMAIN sh \ {id} :
       sh[j].isActive /\ sh[j].distributorId = d /\ KeyOfShop(sh[j]) = KeyOfShop(sh[id])
  \/ \E t \in Types : \E k \in 1..Len(LegacyOf(ds, d, t)) :
       /\ LegacyKey(LegacyOf(ds, d, t)[k]) = KeyOfShop(sh[id])
       /\ ~( t = sh[id].type
             /\ Matches(LegacyOf(ds, d, t)[k], sh[id].name, sh[id].ownerName, sh[id].address) )

\* C19 as stated: when updateShop changes only the type of a shop, the entry with
\* the shop's fields leaves the old type's array, an entry with them joins the new
\* type's array of the same distributor, and the count of the old type is one less
\* and that of the new type one more than before.
C19_TypeChangeCounts ==
  [][\A id \in DOMAIN shops :
       TypeOnlyUpdate(id)
       => LET old == shops[id]
              new == shops'[id]
              d == old.distributorId
          IN /\ ~HasEntry(LegacyOf(dist', d, old.type), old.name, old.ownerName, old.address)
             /\ HasEntry(LegacyOf(dist', d, new.type), new.name, new.ownerName, new.address)
             /\ Count(dist', d, old.type) = TotalCount(shops, dist, d, old.type) - 1
             /\ Count(dist', d, new.type) = TotalCount(shops, dist, d, new.type) + 1
    ]_vars

\* C19 amended: when updateShop changes only the type of an active shop, every
\* entry with exactly the shop's fields leaves the old type's array and the other
\* entries stay, one entry with the shop's fields is appended to the new type's
\* array of the same distributor, and both counts are the totals syncCounts
\* computes; the old type's total is one less and the new type's one more when no
\* other active shop of the distributor and no other legacy entry of its two arrays
\* carries the shop's identity key.
C19_TypeChangeMovesEntry ==
  [][\A id \in DOMAIN shops :
       TypeOnlyUpdate(id)
       => LET old == shops[id]
              new == shops'[id]
              d == old.distributorId
          IN /\ LegacyOf(dist', d, old.type)
                  = SelectSeq(LegacyOf(dist, d, old.type),
                              LAMBDA e : ~Matches(e, old.name, old.ownerName, old.address))
             /\ LegacyOf(dist', d, new.type)
                  = Append(LegacyOf(dist, d, new.type),
                           Entry(new.name, new.ownerName, new.address, id))
             /\ \A t \in Types : Count(dist', d, t) = TotalCount(shops', dist', d, t)
             /\ ~KeySharedAt(shops, dist, id, d)
                  => /\ Count(dist', d, old.type) = TotalCount(shops, dist, d, old.type) - 1
                     /\ Count(dist', d, new.type) = TotalCount(shops, dist, d, new.type) + 1
    ]_vars

C19_Witness ==
  /\ last.op = "update"
  /\ last.res = "ok"
  /\ Len(shops) = 1
  /\ shops[1].isActive
  /\ shops[1].type = "Whole Seller"
  /\ shops[1].distributorId = "D2"
  /\ dist["D2"].retailShops = <<>>
  /\ dist["D2"].wholesaleShops = <<Entry(shops[1].name, shops[1].ownerName, shops[1].address, 1)>>
  /\ dist["D2"].retailShopCount = 0
  /\ dist["D2"].wholesaleShopCount = 1
  /\ dist["D1"].retailShopCount = 0

SyncedAfterWrites(D) ==
  \A d \in D \cap DOMAIN dist' :
    /\ d \in last'.synced
    /\ \A t \in Types : Count(dist', d, t) = TotalCount(shops', dist', d, t)

\* C20: a successful addShop, updateShop or deleteShop has run syncCounts, after its
\* Shop write and its legacy-array write, for every distributor it affects that
\* exists: the shop's distributor, and for an update both the distributor the shop
\* had and the one it has now, also when the former resolves to no distributor.
C20_SyncAfterEveryMutation ==
  [][/\ last'.op = "add" /\ last'.res = "ok"
          => SyncedAfterWrites({shops'[Len(shops')].distributorId})
     /\ last'.op = "delete" /\ last'.res = "ok"
          => \A id \in DOMAIN shops :
               DeleteShopOp(id, "none") => SyncedAfterWrites({shops[id].distributorId})
     /\ last'.op = "update" /\ last'.res = "ok"
          => \A id \in DOMAIN shops : \A req \in UpdateRequestsFor(id) :
               UpdateShopOp(id, req, "none")
               => SyncedAfterWrites({shops[id].distributorId, shops'[id].distributorId})
    ]_vars

ShopView(sh, i) ==
  [name |-> sh[i].name, ownerName |-> sh[i].ownerName, address |-> sh[i].address,
   type |-> sh[i].type, isLegacy |-> FALSE, id |-> i, mirrorOf |-> 0]

LegacyView(e, t) ==
  [name |-> e.shopName, ownerName |-> e.ownerName, address |-> e.address,
   type |-> t, isLegacy |-> TRUE, id |-> 0, mirrorOf |-> e.mirrorOf]

\* How often the listing of d under filter f has to hold the element v.
Expected(sh, ds, d, f, v) ==
  IF ~(f = "" \/ v.type = f) THEN 0
  ELSE IF v.isLegacy
  THEN Cardinality({k \in 1..Len(LegacyOf(ds, d, v.type)) :
                      /\ LegacyView(LegacyOf(ds, d, v.type)[k], v.type) = v
                      /\ \A i \in ActiveOf(sh, d, v.type) :
                           KeyOfShop(sh[i]) # LegacyKey(LegacyOf(ds, d, v.type)[k])})
  ELSE IF v.id \in ActiveOf(sh, d, v.type) /\ ShopView(sh, v.id) = v THEN 1 ELSE 0

Listed(list, v) == Cardinality({k \in 1..Len(list) : list[k] = v})

Views(sh, ds, d) ==
  {ShopView(sh, i) : i \in DOMAIN sh}
  \cup UNION {{LegacyView(LegacyOf(ds, d, t)[k], t) : k \in 1..Len(LegacyOf(ds, d, t))}
              : t \in Types}

\* C21: the listing of a distributor under a type filter (or none) holds exactly
\* the active Shop records of the distributor (of the filtered type), none tagged
\* isLegacy, and the legacy entries of the selected arrays whose identity key is the
\* key of no active Shop record of the distributor of the same type, tagged
\* isLegacy with the type of their array; nothing else, and no inactive shop.
C21_ListingContents ==
  \A d \in DOMAIN dist : \A f \in Types \cup {""} :
    LET list == ListShops(shops, dist, d, f)
    IN /\ \A k \in 1..Len(list) : list[k] \in Views(shops, dist, d)
       /\ \A v \in Views(shops, dist, d) : Listed(list, v) = Expected(shops, dist, d, f, v)

\* C22: a successful listing of an existing distributor has run syncCounts for it:
\* right after it both counts of the distributor are the totals computed from the
\* Shop records and legacy arrays; and it changes no Shop record, no legacy array
\* and nothing of any other distributor.
C22_ListSyncsCounts ==
  [][\A d \in DistIds :
       ( /\ last'.op = "list"
         /\ last'.res = "ok"
         /\ GetShopsByDistributorOp(d, "none") )
       => /\ shops' = shops
          /\ \A x \in Dists :
               /\ dist'[x].retailShops = dist[x].retailShops
               /\ dist'[x].wholesaleShops = dist[x].wholesaleShops
               /\ x # d => dist'[x] = dist[x]
          /\ \A t \in Types : Count(dist', d, t) = TotalCount(shops, dist, d, t)
    ]_vars

C22_Witness ==
  /\ last.op = "list"
  /\ last.res = "ok"
  /\ last.synced = {"D1"}
  /\ Len(shops) = 1
  /\ shops[1].isActive
  /\ dist["D1"].retailShops = <<HistoricalEntry>>
  /\ dist["D1"].retailShopCount = 1
  /\ dist["D1"].wholesaleShopCount = 0

\* C23: a successful updateShop changes a field of the Shop record only if the
\* request supplies a value for it, and then to that value; every field the
\* request leaves out keeps its value, isActive is kept, and no other Shop record
\* changes.  Stated for every id and body: the Shop Store has changed that way, or
\* the step is not updateShop(id, body).
C23_PartialUpdate ==
  [][(last'.op = "update" /\ last'.res = "ok") =>
     \A id \in DOMAIN shops : \A req \in UpdateRequestsFor(id) :
       \/ /\ Len(shops') = Len(shops)
          /\ \A j \in DOMAIN shops \ {id} : shops'[j] = shops[j]
          /\ shops'[id].isActive = shops[id].isActive
          /\ shops'[id].name # shops[id].name
               => (req.name # None /\ shops'[id].name = req.name)
          /\ shops'[id].ownerName # shops[id].ownerName
               => (req.ownerName # None /\ shops'[id].ownerName = req.ownerName)
          /\ shops'[id].address # shops[id].address
               => (req.address # None /\ shops'[id].address = req.address)
          /\ shops'[id].type # shops[id].type
               => (req.type # "" /\ shops'[id].type = req.type)
          /\ shops'[id].distributorId # shops[id].distributorId
               => (req.distributorId # "" /\ shops'[id].distributorId = req.distributorId)
       \/ ~UpdateShopOp(id, req, "none")
    ]_vars

C23_Witness ==
  /\ last.op = "update"
  /\ last.res = "ok"
  /\ Len(shops) = 1
  /\ shops[1] = [name |-> <<"a">>, ownerName |-> <<"p">>, address |-> <<"x">>,
                  type |-> "Retailer", distributorId |-> "D2", isActive |-> TRUE]
  /\ dist["D2"].retailShops = <<Entry(<<"a">>, <<"o">>, <<"x">>, 1)>>

\* C25: from empty legacy arrays and zero counts, while no shop has been deleted
\* and no distributor removed, each distributor's retailShopCount is its number of
\* active Retailer shops and its wholesaleShopCount its number of active Whole
\* Seller shops.
C25_CountsAreActiveShops ==
  ( /\ DOMAIN dist = Dists
    /\ \A i \in DOMAIN shops : shops[i].isActive )
  => \A d \in Dists : \A t \in Types :
       Count(dist, d, t) = Cardinality(ActiveOf(shops, d, t))

\* C26: no retailShops or wholesaleShops array holds two entries with the same
\* identity key.
C26_NoDuplicateLegacyKeys ==
  \A d \in DOMAIN dist : \A t \in Types :
    \A k1 \in 1..Len(LegacyOf(dist, d, t)) : \A k2 \in 1..Len(LegacyOf(dist, d, t)) :
      k1 # k2 => LegacyKey(LegacyOf(dist, d, t)[k1]) # LegacyKey(LegacyOf(dist, d, t)[k2])

\* C27: when a listing of d returns, the number of elements of d's listing with no
\* type filter is d.retailShopCount + d.wholesaleShopCount, and the number with a
\* type filter is the count of that type.
C27_ListingMatchesCounts ==
  (last.op = "list" /\ last.res = "ok")
  => \A d \in last.synced :
       /\ Len(ListShops(shops, dist, d, "")) = Count(dist, d, "Retailer") + Count(dist, d, "Whole Seller")
       /\ \A t \in Types : Len(ListShops(shops, dist, d, t)) = Count(dist, d, t)

SameFields(r1, r2) ==
  /\ ToLowerCase(r1.name) = ToLowerCase(r2.name)
  /\ ToLowerCase(r1.ownerName) = ToLowerCase(r2.ownerName)
  /\ ToLowerCase(r1.address) = ToLowerCase(r2.address)

\* C30: two records (Shop records or legacy entries) have the same identity key
\* only if their names, their owner names and their addresses are equal ignoring
\* case; so syncCounts leaves a legacy entry out of a count only when an active shop
\* of the distributor and type has its three fields.
C30_KeyDistinguishesShops ==
  /\ \A r1 \in Records, r2 \in Records : r1.key = r2.key => SameFields(r1, r2)
  /\ \A d \in last.synced : \A t \in Types :
       Count(dist, d, t) >=
         Cardinality(ActiveOf(shops, d, t))
         + Cardinality({k \in 1..Len(LegacyOf(dist, d, t)) :
                          \A i \in ActiveOf(shops, d, t) :
                            ~SameFields(shops[i],
                                        [name |-> LegacyOf(dist, d, t)[k].shopName,
                                         ownerName |-> LegacyOf(dist, d, t)[k].ownerName,
                                         address |-> LegacyOf(dist, d, t)[k].address])})

\* ------------------------------------------- requests served concurrently
\* Every `await` of a handler is one step: the store operation it waits for is
\* atomic, and between two of them any other request may take its own steps.
NoShop ==
  [name |-> None, ownerName |-> None, address |-> None,
   type |-> "", distributorId |-> "", isActive |-> FALSE]

NoDoc ==
  [retailShops |-> <<>>, wholesaleShops |-> <<>>,
   retailShopCount |-> 0, wholesaleShopCount |-> 0]

NoBody ==
  [name |-> None, ownerName |-> None, address |-> None, type |-> "", distributorId |-> ""]

\* A request in flight.  shop, orig, doc: the documents its reads returned.
\* todo: the distributors its handler has still to sync.  nRetail, nWhole,
\* retailKeys, wholesaleKeys: what the sync in progress has read.  clean and
\* repaired are history: no other request has written on the distributor since
\* the sync in progress read it; the sync found the counts stale and was clean.
Request(kind, id, body) ==
  [kind |-> kind, id |-> id, body |-> body,
   pc |-> IF kind = "add" THEN "a_dist"
          ELSE IF kind = "update" THEN "u_find"
          ELSE IF kind = "delete" THEN "d_find"
          ELSE "l_dist",
   res |-> "", shop |-> NoShop, orig |-> NoShop, doc |-> NoDoc, todo |-> <<>>,
   nRetail |-> 0, nWhole |-> 0, retailKeys |-> {}, wholesaleKeys |-> {},
   clean |-> FALSE, repaired |-> FALSE]

ConcurrentRequests ==
  {Request("add", 0, [name |-> n, ownerName |-> <<"o">>, address |-> <<"x">>,
                      type |-> "Retailer", distributorId |-> "D1"]) : n \in Names}
  \cup {Request("update", 1, b) : b \in {[NoBody EXCEPT !.type = "Whole Seller"],
                                         [NoBody EXCEPT !.name = <<"A">>],
                                         [NoBody EXCEPT !.distributorId = "D2"]}}
  \cup {Request("delete", 1, NoBody)}

FirstShop ==
  NewShop([name |-> <<"a">>, ownerName |-> <<"o">>, address |-> <<"x">>,
           type |-> "Retailer", distributorId |-> "D1"])

\* Two requests arrive together, at an empty Shop Store or at the stores one
\* addShop has left.
InitConcurrent ==
  /\ \E n \in {0, 1}, r1, r2 \in ConcurrentRequests :
       /\ n + Cardinality({i \in {1, 2} : <<r1, r2>>[i].kind = "add"}) <= MaxShops
       /\ n = 0 => r1.kind = "add" /\ r2.kind = "add"
       /\ shops = IF n = 1 THEN <<FirstShop>> ELSE <<>>
       /\ dist = [d \in Dists |->
                    IF n = 1 /\ d = "D1"
                    THEN [NoDoc EXCEPT !.retailShops = <<Entry(<<"a">>, <<"o">>, <<"x">>, 1)>>,
                                       !.retailShopCount = 1]
                    ELSE NoDoc]
       /\ inflight = <<r1, r2>>
  /\ dirty = [d \in Dists |-> FALSE]
  /\ last = [op |-> "init", res |-> "ok", synced |-> {}]
  /\ steps = 0

InSync(r) == r.pc \in {"s_retail", "s_whole", "s_find", "s_write"}

Disturb(r, D) ==
  IF InSync(r) /\ Head(r.todo) \in D THEN [r EXCEPT !.clean = FALSE] ELSE r

\* Request p moves on to r, having written on the data of the distributors D.
Advance(p, r, D) ==
  /\ inflight' = [q \in DOMAIN inflight |-> IF q = p THEN r ELSE Disturb(inflight[q], D)]
  /\ dirty' = [d \in Dists |-> d \in D \/ dirty[d]]
  /\ UNCHANGED <<last, steps>>

Finish(r, res) ==
  [r EXCEPT !.pc = "done", !.res = res, !.shop = NoShop, !.orig = NoShop,
            !.doc = NoDoc, !.todo = <<>>]

StartSync(r, ds) ==
  [r EXCEPT !.pc = "s_dist", !.todo = ds, !.shop = NoShop, !.orig = NoShop, !.doc = NoDoc]

\* ---- syncDistributorShopCounts, read by read
SyncFindDistributor(p) ==
  LET r == inflight[p] IN
  /\ r.pc = "s_dist"
  /\ Advance(p, IF r.todo = <<>> THEN Finish(r, "ok")
                ELSE IF ~Exists(dist, Head(r.todo)) THEN [r EXCEPT !.todo = Tail(@)]
                ELSE [r EXCEPT !.pc = "s_retail", !.doc = dist[Head(r.todo)],
                               !.clean = TRUE],
             {})
  /\ UNCHANGED <<shops, dist>>

CountDocumentsAll(sh, d, t) ==
  Cardinality({i \in DOMAIN sh : sh[i].distributorId = d /\ sh[i].type = t})

CountDocuments(sh, d, t) == Cardinality(ActiveOf(sh, d, t))

SyncCountRetail(p) ==
  LET r == inflight[p] IN
  /\ r.pc = "s_retail"
  /\ Advance(p, [r EXCEPT !.pc = "s_whole",
                          !.nRetail = CountDocuments(shops, Head(r.todo), "Retailer")], {})
  /\ UNCHANGED <<shops, dist>>

SyncCountWholesale(p) ==
  LET r == inflight[p] IN
  /\ r.pc = "s_whole"
  /\ Advance(p, [r EXCEPT !.pc = "s_find",
                          !.nWhole = CountDocuments(shops, Head(r.todo), "Whole Seller")], {})
  /\ UNCHANGED <<shops, dist>>

SyncFindShops(p) ==
  LET r == inflight[p] IN
  /\ r.pc = "s_find"
  /\ Advance(p, [r EXCEPT !.pc = "s_write",
                          !.retailKeys = ShopKeys(shops, Head(r.todo), "Retailer"),
                          !.wholesaleKeys = ShopKeys(shops, Head(r.todo), "Whole Seller")], {})
  /\ UNCHANGED <<shops, dist>>

TotalOfReadsNoDedup(n, arr, keys) == n + Len(arr)

TotalOfReads(n, arr, keys) == n + UniqueLegacyCount(arr, keys)

SyncWrite(p) ==
  LET r == inflight[p]
      d == Head(r.todo)
      totalRetailCount == TotalOfReads(r.nRetail, r.doc.retailShops, r.retailKeys)
      totalWholesaleCount == TotalOfReads(r.nWhole, r.doc.wholesaleShops, r.wholesaleKeys)
      writes == /\ Exists(dist, d)
                /\ \/ totalRetailCount # r.doc.retailShopCount
                   \/ totalWholesaleCount # r.doc.wholesaleShopCount
      stale == \E t \in Types : Count(dist, d, t) # TotalCount(shops, dist, d, t)
  IN
  /\ r.pc = "s_write"
  /\ dist' = IF writes
             THEN [dist EXCEPT ![d].retailShopCount = totalRetailCount,
                               ![d].wholesaleShopCount = totalWholesaleCount]
             ELSE dist
  /\ inflight' = [q \in DOMAIN inflight |->
                    IF q = p
                    THEN [r EXCEPT !.pc = "s_dist", !.todo = Tail(@), !.doc = NoDoc,
                                   !.nRetail = 0, !.nWhole = 0,
                                   !.retailKeys = {}, !.wholesaleKeys = {},
                                   !.repaired = r.clean /\ stale]
                    ELSE Disturb(inflight[q], IF writes THEN {d} ELSE {})]
  /\ dirty' = [x \in Dists |->
                 IF x # d THEN dirty[x]
                 ELSE IF r.clean THEN FALSE
                 ELSE writes \/ dirty[x]]
  /\ UNCHANGED <<shops, last, steps>>

\* ---- addShop, await by await
AddShopFindDistributor(p) ==
  LET r == inflight[p] IN
  /\ r.pc = "a_dist"
  /\ Advance(p, IF AddInvalid(r.body) THEN Finish(r, "validation")
                ELSE IF ~Exists(dist, r.body.distributorId) THEN Finish(r, "notfound")
                ELSE [r EXCEPT !.pc = "a_find", !.doc = dist[r.body.distributorId]],
             {})
  /\ UNCHANGED <<shops, dist>>

AddShopFindExisting(p) ==
  LET r == inflight[p] IN
  /\ r.pc = "a_find"
  /\ Advance(p, IF ExistingShop(shops, r.body) THEN Finish(r, "conflict")
                ELSE [r EXCEPT !.pc = "a_create"],
             {})
  /\ UNCHANGED <<shops, dist>>

AddShopCreate(p) ==
  LET r == inflight[p] IN
  /\ r.pc = "a_create"
  /\ IF r.body.type \notin Types THEN
       /\ Advance(p, Finish(r, "validation"), {})
       /\ UNCHANGED <<shops, dist>>
     ELSE
       /\ Len(shops) < MaxShops
       /\ shops' = Append(shops, NewShop(r.body))
       /\ Advance(p, [r EXCEPT !.pc = "a_push", !.id = Len(shops) + 1],
                  {r.body.distributorId})
       /\ UNCHANGED dist

AddShopPush(p) ==
  LET r == inflight[p]
      d == r.body.distributorId
      updateField == UpdateField(r.body.type)
      shopExists == HasEntry(r.doc[updateField], r.body.name, r.body.ownerName,
                             r.body.address)
      pushes == ~shopExists /\ Exists(dist, d)
  IN
  /\ r.pc = "a_push"
  /\ dist' = IF pushes
             THEN [dist EXCEPT ![d][updateField] =
                     Append(@, Entry(r.body.name, r.body.ownerName, r.body.address, r.id))]
             ELSE dist
  /\ WithinBounds(dist')
  /\ Advance(p, StartSync(r, <<d>>), IF pushes THEN {d} ELSE {})
  /\ UNCHANGED shops

\* ---- updateShop, await by await
UpdateShopFind(p) ==
  LET r == inflight[p] IN
  /\ r.pc = "u_find"
  /\ Advance(p, IF r.id \notin DOMAIN shops THEN Finish(r, "notfound")
                ELSE [r EXCEPT !.orig = shops[r.id], !.shop = shops[r.id],
                               !.pc = IF /\ r.body.distributorId # ""
                                         /\ r.body.distributorId # shops[r.id].distributorId
                                      THEN "u_newdist" ELSE "u_write"],
             {})
  /\ UNCHANGED <<shops, dist>>

UpdateShopFindNewDistributor(p) ==
  LET r == inflight[p] IN
  /\ r.pc = "u_newdist"
  /\ Advance(p, IF ~Exists(dist, r.body.distributorId) THEN Finish(r, "notfound")
                ELSE [r EXCEPT !.pc = "u_write"],
             {})
  /\ UNCHANGED <<shops, dist>>

\* findByIdAndUpdate sets the five fields from the request and the document read
\* at the start; isActive is the stored document's.
UpdateShopWrite(p) ==
  LET r == inflight[p]
      shop == [UpdatedShop(r.orig, r.body) EXCEPT !.isActive = shops[r.id].isActive]
  IN
  /\ r.pc = "u_write"
  /\ IF shop.type \notin Types THEN
       /\ Advance(p, Finish(r, "validation"), {})
       /\ UNCHANGED <<shops, dist>>
     ELSE
       /\ shops' = [shops EXCEPT ![r.id] = shop]
       /\ Advance(p, [r EXCEPT !.pc = "u_dist", !.shop = shop],
                  {shops[r.id].distributorId, shop.distributorId})
       /\ UNCHANGED dist

Moved(r) ==
  r.shop.distributorId # r.orig.distributorId \/ r.shop.type # r.orig.type

SyncList(r) ==
  IF r.shop.distributorId # r.orig.distributorId
  THEN <<r.orig.distributorId, r.shop.distributorId>>
  ELSE <<r.orig.distributorId>>

UpdateShopFindDistributor(p) ==
  LET r == inflight[p]
      origD == r.orig.distributorId
      details == r.body.name # None \/ r.body.ownerName # None \/ r.body.address # None
      found == HasEntry(dist[origD][UpdateField(r.orig.type)],
                        r.shop.name, r.shop.ownerName, r.shop.address)
  IN
  /\ r.pc = "u_dist"
  /\ Advance(p, IF ~Exists(dist, origD) THEN Finish(r, "ok")
                ELSE IF Moved(r) THEN [r EXCEPT !.pc = "u_pull"]
                ELSE IF details /\ found THEN [r EXCEPT !.pc = "u_patch"]
                ELSE StartSync(r, SyncList(r)),
             {})
  /\ UNCHANGED <<shops, dist>>

UpdateShopPull(p) ==
  LET r == inflight[p]
      origD == r.orig.distributorId
      target == PullTarget(r.orig, r.shop)
  IN
  /\ r.pc = "u_pull"
  /\ dist' = [dist EXCEPT ![origD][UpdateField(r.orig.type)] =
                Pull(@, target.name, target.ownerName, target.address)]
  /\ Advance(p, [r EXCEPT !.pc = "u_push"], {origD})
  /\ UNCHANGED shops

UpdateShopPush(p) ==
  LET r == inflight[p]
      newD == r.shop.distributorId
  IN
  /\ r.pc = "u_push"
  /\ dist' = [dist EXCEPT ![newD][UpdateField(r.shop.type)] =
                Append(@, Entry(Or(r.body.name, r.shop.name),
                                Or(r.body.ownerName, r.shop.ownerName),
                                Or(r.body.address, r.shop.address), r.id))]
  /\ WithinBounds(dist')
  /\ Advance(p, StartSync(r, SyncList(r)), {newD})
  /\ UNCHANGED shops

\* The filter of findOneAndUpdate is evaluated on the stored document: it matches
\* when each of its three conditions is met by some element of the array.
UpdateShopPatch(p) ==
  LET r == inflight[p]
      origD == r.orig.distributorId
      field == UpdateField(r.orig.type)
      arr == dist[origD][field]
      matches == /\ FirstIndex(arr, "shopName", r.shop.name) # 0
                 /\ FirstIndex(arr, "ownerName", r.shop.ownerName) # 0
                 /\ FirstIndex(arr, "address", r.shop.address) # 0
  IN
  /\ r.pc = "u_patch"
  /\ IF matches
     THEN \E pos \in PatchPositions(arr, r.shop) :
            dist' = [dist EXCEPT ![origD][field][pos] = PatchEntry(@, r.body)]
     ELSE dist' = dist
  /\ Advance(p, StartSync(r, SyncList(r)), IF matches THEN {origD} ELSE {})
  /\ UNCHANGED shops

\* ---- deleteShop, await by await
DeleteShopFind(p) ==
  LET r == inflight[p] IN
  /\ r.pc = "d_find"
  /\ Advance(p, IF r.id \notin DOMAIN shops THEN Finish(r, "notfound")
                ELSE [r EXCEPT !.pc = "d_write", !.shop = shops[r.id]],
             {})
  /\ UNCHANGED <<shops, dist>>

DeleteShopWrite(p) ==
  LET r == inflight[p] IN
  /\ r.pc = "d_write"
  /\ shops' = [shops EXCEPT ![r.id].isActive = FALSE]
  /\ Advance(p, [r EXCEPT !.pc = "d_dist"], {shops[r.id].distributorId})
  /\ UNCHANGED dist

DeleteShopFindDistributor(p) ==
  LET r == inflight[p]
      d == r.shop.distributorId
  IN
  /\ r.pc = "d_dist"
  /\ Advance(p, IF ~Exists(dist, d) THEN Finish(r, "ok")
                ELSE IF HasEntry(dist[d][UpdateField(r.shop.type)],
                                 r.shop.name, r.shop.ownerName, r.shop.address)
                     THEN [r EXCEPT !.pc = "d_pull"]
                ELSE StartSync(r, <<d>>),
             {})
  /\ UNCHANGED <<shops, dist>>

DeleteShopPull(p) ==
  LET r == inflight[p]
      d == r.shop.distributorId
  IN
  /\ r.pc = "d_pull"
  /\ dist' = [dist EXCEPT ![d][UpdateField(r.shop.type)] =
                Pull(@, r.shop.name, r.shop.ownerName, r.shop.address)]
  /\ Advance(p, StartSync(r, <<d>>), {d})
  /\ UNCHANGED shops

\* ---- getShopsByDistributor, await by await; the response is not modelled here
ListArrives(p) ==
  /\ inflight[p].pc = "done"
  /\ inflight[p].kind # "list"
  /\ \E d \in Dists :
       inflight' = [inflight EXCEPT ![p] = Request("list", 0, [NoBody EXCEPT !.distributorId = d])]
  /\ UNCHANGED <<shops, dist, dirty, last, steps>>

ListFindDistributor(p) ==
  LET r == inflight[p] IN
  /\ r.pc = "l_dist"
  /\ Advance(p, IF ~Exists(dist, r.body.distributorId) THEN Finish(r, "notfound")
                ELSE [r EXCEPT !.pc = "l_find"],
             {})
  /\ UNCHANGED <<shops, dist>>

ListFindShops(p) ==
  LET r == inflight[p] IN
  /\ r.pc = "l_find"
  /\ Advance(p, StartSync(r, <<r.body.distributorId>>), {})
  /\ UNCHANGED <<shops, dist>>

AddShopStep ==
  \E p \in DOMAIN inflight :
    AddShopFindDistributor(p) \/ AddShopFindExisting(p) \/ AddShopCreate(p) \/ AddShopPush(p)

UpdateShopStep ==
  \E p \in DOMAIN inflight :
    \/ UpdateShopFind(p) \/ UpdateShopFindNewDistributor(p) \/ UpdateShopWrite(p)
    \/ UpdateShopFindDistributor(p) \/ UpdateShopPull(p) \/ UpdateShopPush(p)
    \/ UpdateShopPatch(p)

DeleteShopStep ==
  \E p \in DOMAIN inflight :
    DeleteShopFind(p) \/ DeleteShopWrite(p) \/ DeleteShopFindDistributor(p) \/ DeleteShopPull(p)

ListStep ==
  \E p \in DOMAIN inflight : ListArrives(p) \/ ListFindDistributor(p) \/ ListFindShops(p)

SyncStep ==
  \E p \in DOMAIN inflight :
    \/ SyncFindDistributor(p) \/ SyncCountRetail(p) \/ SyncCountWholesale(p)
    \/ SyncFindShops(p) \/ SyncWrite(p)

NextConcurrent == AddShopStep \/ UpdateShopStep \/ DeleteShopStep \/ ListStep \/ SyncStep

SpecConcurrent == InitConcurrent /\ [][NextConcurrent]_vars

AllDone == \A p \in DOMAIN inflight : inflight[p].pc = "done"

Fresh(d) == \A t \in Types : Count(dist, d, t) = TotalCount(shops, dist, d, t)

\* C24: a syncCounts(d) that runs from its first read to its write while no other
\* request writes on d's shops, arrays or counts leaves d's counts equal to the
\* totals of the stores as they then are, whatever the earlier interleaving of
\* addShop, updateShop and deleteShop left in the counts.
C24_UninterruptedSyncRepairs ==
  [][\A p \in DOMAIN inflight :
       (/\ inflight[p].pc = "s_write"
        /\ inflight[p].clean
        /\ inflight'[p].pc = "s_dist")
       => \A t \in Types :
            Count(dist', Head(inflight[p].todo), t)
              = TotalCount(shops', dist', Head(inflight[p].todo), t)]_vars

\* A listing's sync found stale counts after the other request, whose own sync a
\* write had overlapped, was over, and repaired them.
C24_Witness ==
  \E p, q \in DOMAIN inflight :
    /\ inflight[p].kind = "list" /\ inflight[p].pc = "s_dist" /\ inflight[p].repaired
    /\ inflight[p].body.distributorId = "D1"
    /\ inflight[q].kind = "add" /\ inflight[q].pc = "done" /\ inflight[q].res = "ok"
    /\ ~inflight[q].clean
    /\ Fresh("D1")

\* C28: of two concurrent addShop requests with the same name and the same
\* distributorId at most one creates a Shop record.
C28_AtMostOneCreates ==
  \A p, q \in DOMAIN inflight :
    (/\ p # q
     /\ inflight[p].kind = "add" /\ inflight[q].kind = "add"
     /\ inflight[p].body.name = inflight[q].body.name
     /\ inflight[p].body.distributorId = inflight[q].body.distributorId)
    => ~(inflight[p].id # 0 /\ inflight[q].id # 0)

\* C29: once every concurrent request has completed, each distributor's counts
\* equal the totals computed from the final Shop Store and legacy arrays.
C29_CountsFreshWhenAllDone ==
  AllDone => \A d \in Dists : Fresh(d)

\* C29, amended: once every concurrent request has completed, a distributor's
\* counts equal the totals of the final state if, after the last write of any
\* request on that distributor's shops, arrays or counts, a syncCounts on it ran
\* from its first read to its end with no such write of another request between.
C29_CountsFreshAfterCleanSync ==
  AllDone => \A d \in Dists : ~dirty[d] => Fresh(d)

\* Both requests wrote on D1 and ended, the sync of the first overlapped by a
\* write of the second, the sync of the second overlapped by none.
C29_Witness ==
  /\ AllDone
  /\ \A p \in DOMAIN inflight : inflight[p].kind # "list" /\ inflight[p].res = "ok"
  /\ \E p, q \in DOMAIN inflight : ~inflight[p].clean /\ inflight[q].clean
  /\ ~dirty["D1"]
  /\ Len(shops) = 2

====
